---------------------------- MODULE Spec2Model ----------------------------
(***************************************************************************)
(* QR reader page of app.py: the Streamlit script is re-executed from top  *)
(* to bottom on every user interaction (a "render pass").  The session     *)
(* state holds the serial handle and the scan history; each pass applies   *)
(* the clicked button, then polls the serial port once.                    *)
(*                                                                         *)
(* Bytes are numbers 0..255, text is a sequence of code points, a          *)
(* timestamp is the wall clock in whole seconds.                           *)
(***************************************************************************)
EXTENDS Integers, Sequences, FiniteSets, TLC

(* ------------------------------ bounds -------------------------------- *)
\* frames the scanner emits in the free-form environment (Spec)
MaxFrames == 2
\* bytes the OS receive buffer holds before the scanner has to wait
MaxBuf == 4
\* seconds the wall clock advances
MaxClock == 1
\* distinct labels the scanner cycles through in the long run (SpecHist)
NumCodes == 2
\* records ingested since the history was last empty, in the long run
MaxIngest == 101

(* ------------------------- program constants -------------------------- *)
\* "Limitar el historial a los ultimos 100 elementos"
HistoryCap == 100

None == [obj |-> "None"]

Ports == {"COM3", "COM4"}
NoPorts == "No se encontraron puertos COM"
PortChoices == Ports \cup {NoPorts}
Bauds == {9600}

\* what serial.Serial(...) does: opens the device or raises SerialException
OpenOutcomes == {"ok", "SerialException"}
\* what readline() does: returns bytes, raises SerialException, raises another error
ReadOutcomes == {"ok", "SerialException", "Exception"}

\* lines and fragments a scanner can put on the wire:
\* "A\n", " \r\n", "\xff\n", "A\xff\n", "\xc3\xa9\n" (e acute), "B" (no newline yet)
Frames ==
  { <<65, 10>>, <<32, 13, 10>>, <<255, 10>>, <<65, 255, 10>>, <<195, 169, 10>>, <<66>> }

\* the k-th label of the scanner's repeating run: "A\n", "B\n", ...
CodeFrame(k) == <<65 + k, 10>>

VARIABLES
  serial_port,         \* st.session_state.serial_port: None or a Serial object
  reconnect_attempts,  \* st.session_state.reconnect_attempts
  historial_qr,        \* st.session_state.historial_qr: rows, newest first
  rxbuf,               \* bytes waiting in the open device's receive buffer
  handles,             \* OS serial handles currently open by the process
  closed_by,           \* what closed the session last: "-", "user" or the read's exception
  clock,               \* datetime.now(), in seconds
  sent,                \* frames the scanner has emitted (Spec)
  label,               \* next label of the scanner's repeating run (SpecHist)
  ingested,            \* rows appended since the history was last empty, oldest first
  pass                 \* what the last render pass did

vars ==
  <<serial_port, reconnect_attempts, historial_qr, rxbuf, handles, closed_by,
    clock, sent, label, ingested, pass>>

(* ------------------------------ helpers ------------------------------- *)
Min(a, b) == IF a < b THEN a ELSE b

Take(s, n) == SubSeq(s, 1, Min(n, Len(s)))

\* Python truth value of session_state.serial_port (a Serial object is truthy)
Truthy(sp) == sp # None

IsOpen(sp) == Truthy(sp) /\ sp.is_open

\* str.isspace() for one code point
IsSpace(c) ==
  c \in ({9, 10, 11, 12, 13, 28, 29, 30, 31, 32, 133, 160, 5760}
         \cup (8192..8202) \cup {8232, 8233, 8239, 8287, 12288})

RECURSIVE LStrip(_)
LStrip(t) == IF t # <<>> /\ IsSpace(Head(t)) THEN LStrip(Tail(t)) ELSE t

RECURSIVE RStrip(_)
RStrip(t) ==
  IF t # <<>> /\ IsSpace(t[Len(t)]) THEN RStrip(SubSeq(t, 1, Len(t) - 1)) ELSE t

\* str.strip()
Strip(t) == RStrip(LStrip(t))

IsCont(b) == b \in 128..191

\* allowed range of the second byte after a 3- or 4-byte lead
Second(lead) ==
  IF lead = 224 THEN 160..191
  ELSE IF lead = 237 THEN 128..159
  ELSE IF lead = 240 THEN 144..191
  ELSE IF lead = 244 THEN 128..143
  ELSE 128..191

\* the UTF-8 decoder from byte i on: a well-formed sequence gives its code
\* point, an ill-formed one (its maximal subpart) gives `sub`, what the error
\* handler supplies in its place
RECURSIVE DecodeFrom(_, _, _)
DecodeFrom(bs, i, sub) ==
  IF i > Len(bs) THEN <<>>
  ELSE
    LET b == bs[i]
        n == Len(bs)
    IN
      IF b < 128 THEN <<b>> \o DecodeFrom(bs, i + 1, sub)
      ELSE IF b \in 194..223 THEN
        IF i + 1 <= n /\ IsCont(bs[i + 1])
        THEN <<(b - 192) * 64 + (bs[i + 1] - 128)>> \o DecodeFrom(bs, i + 2, sub)
        ELSE sub \o DecodeFrom(bs, i + 1, sub)
      ELSE IF b \in 224..239 THEN
        IF ~(i + 1 <= n /\ bs[i + 1] \in Second(b)) THEN sub \o DecodeFrom(bs, i + 1, sub)
        ELSE IF ~(i + 2 <= n /\ IsCont(bs[i + 2])) THEN sub \o DecodeFrom(bs, i + 2, sub)
        ELSE <<(b - 224) * 4096 + (bs[i + 1] - 128) * 64 + (bs[i + 2] - 128)>>
             \o DecodeFrom(bs, i + 3, sub)
      ELSE IF b \in 240..244 THEN
        IF ~(i + 1 <= n /\ bs[i + 1] \in Second(b)) THEN sub \o DecodeFrom(bs, i + 1, sub)
        ELSE IF ~(i + 2 <= n /\ IsCont(bs[i + 2])) THEN sub \o DecodeFrom(bs, i + 2, sub)
        ELSE IF ~(i + 3 <= n /\ IsCont(bs[i + 3])) THEN sub \o DecodeFrom(bs, i + 3, sub)
        ELSE <<(b - 240) * 262144 + (bs[i + 1] - 128) * 4096
               + (bs[i + 2] - 128) * 64 + (bs[i + 3] - 128)>>
             \o DecodeFrom(bs, i + 4, sub)
      ELSE sub \o DecodeFrom(bs, i + 1, sub)

\* errors='replace' in place of errors='ignore'
Decode_replace(bs) == DecodeFrom(bs, 1, <<65533>>)

\* bytes.decode('utf-8', errors='ignore'): ill-formed bytes are left out
Decode(bs) == DecodeFrom(bs, 1, <<>>)

\* number of bytes readline() takes: up to and including the first newline, or
\* everything received when the timeout ends the wait before a newline came
RECURSIVE LineLen(_, _)
LineLen(buf, i) ==
  IF i > Len(buf) THEN Len(buf)
  ELSE IF buf[i] = 10 THEN i
  ELSE LineLen(buf, i + 1)

ReadLine(buf) == SubSeq(buf, 1, LineLen(buf, 1))

AfterLine(buf) == SubSeq(buf, LineLen(buf, 1) + 1, Len(buf))

\* complete lines waiting in a buffer
NumLines(buf) == Cardinality({i \in 1..Len(buf) : buf[i] = 10})

(* ---------------------- the functions of app.py ----------------------- *)
\* st.info / st.success / st.error / st.warning / st.toast
Emit(s, level) == [s EXCEPT !.notices = @ \cup {level}]

\* Serial.close(): the OS handle is released and its buffered input is lost
Close(s) == [s EXCEPT !.handles = @ - 1, !.rxbuf = <<>>]

\* the Serial object is stored before the device is opened, and stays on failure
iniciar_lectura_com_stale(s, com_port, baud_rate, dev) ==
  IF IsOpen(s.serial_port)
  THEN [Emit(s, "info") EXCEPT !.connect = "None"]
  ELSE IF dev = "ok"
  THEN [Emit(s, "success") EXCEPT
          !.serial = "ok",
          !.handles = @ + 1,
          !.rxbuf = <<>>,
          !.serial_port =
            [obj |-> "Serial", port |-> com_port, baudrate |-> baud_rate,
             is_open |-> TRUE],
          !.reconnect_attempts = 0,
          !.closed_by = "-",
          !.connect = "True"]
  ELSE [Emit(s, "error") EXCEPT
          !.serial = "SerialException",
          !.serial_port =
            [obj |-> "Serial", port |-> com_port, baudrate |-> baud_rate,
             is_open |-> FALSE],
          !.connect = "False"]

\* the already-connected check is missing
iniciar_lectura_com_sin_guarda(s, com_port, baud_rate, dev) ==
  IF dev = "ok"
  THEN [Emit(s, "success") EXCEPT
          !.serial = "ok",
          !.handles = @ + 1,
          !.rxbuf = <<>>,
          !.serial_port =
            [obj |-> "Serial", port |-> com_port, baudrate |-> baud_rate,
             is_open |-> TRUE],
          !.reconnect_attempts = 0,
          !.closed_by = "-",
          !.connect = "True"]
  ELSE [Emit(s, "error") EXCEPT
          !.serial = "SerialException",
          !.serial_port = None,
          !.connect = "False"]

iniciar_lectura_com(s, com_port, baud_rate, dev) ==
  IF IsOpen(s.serial_port)
  THEN [Emit(s, "info") EXCEPT !.connect = "None"]
  ELSE IF dev = "ok"
  THEN [Emit(s, "success") EXCEPT
          !.serial = "ok",
          !.handles = @ + 1,
          !.rxbuf = <<>>,
          !.serial_port =
            [obj |-> "Serial", port |-> com_port, baudrate |-> baud_rate,
             is_open |-> TRUE],
          !.reconnect_attempts = 0,
          !.closed_by = "-",
          !.connect = "True"]
  ELSE [Emit(s, "error") EXCEPT
          !.serial = "SerialException",
          !.serial_port = None,
          !.connect = "False"]

detener_lectura_com(s) ==
  IF IsOpen(s.serial_port)
  THEN [Emit(Close(s), "success") EXCEPT !.serial_port = None, !.closed_by = "user"]
  ELSE Emit(s, "info")

\* the length check is missing
actualizar_historial_qr_sin_limite(s, texto_qr, now) ==
  LET nuevo_registro == <<[fecha_hora |-> now, contenido |-> texto_qr]>>
      todos == nuevo_registro \o s.historial_qr
  IN [s EXCEPT
        !.historial_qr = todos,
        !.truncated = Len(todos) > HistoryCap,
        !.appended = @ + 1,
        !.ingested = @ \o nuevo_registro]

\* tail(100) in place of head(100): the newest row is the one cut
actualizar_historial_qr_tail(s, texto_qr, now) ==
  LET nuevo_registro == <<[fecha_hora |-> now, contenido |-> texto_qr]>>
      todos == nuevo_registro \o s.historial_qr
  IN [s EXCEPT
        !.historial_qr =
          IF Len(todos) > HistoryCap
          THEN SubSeq(todos, Len(todos) - HistoryCap + 1, Len(todos))
          ELSE todos,
        !.truncated = Len(todos) > HistoryCap,
        !.appended = @ + 1,
        !.ingested = @ \o nuevo_registro]

actualizar_historial_qr(s, texto_qr, now) ==
  LET nuevo_registro == <<[fecha_hora |-> now, contenido |-> texto_qr]>>
      todos == nuevo_registro \o s.historial_qr
  IN [s EXCEPT
        !.historial_qr = IF Len(todos) > HistoryCap THEN Take(todos, HistoryCap) ELSE todos,
        !.truncated = Len(todos) > HistoryCap,
        !.appended = @ + 1,
        !.ingested = @ \o nuevo_registro]

limpiar_historial(s) ==
  [Emit(s, "success") EXCEPT !.historial_qr = <<>>, !.ingested = <<>>]

\* the SerialException handler reports the error and keeps the port
leer_datos_com_streamlit_keeps_port(s, io, now) ==
  IF ~IsOpen(s.serial_port) THEN s
  ELSE IF io = "SerialException"
  THEN [Emit(s, "error") EXCEPT !.reads = @ + 1, !.fault = "SerialException"]
  ELSE IF io = "Exception"
  THEN [detener_lectura_com(
          [Emit(s, "error") EXCEPT !.reads = @ + 1, !.fault = "Exception"])
        EXCEPT !.closed_by = "Exception"]
  ELSE
    LET linea_bytes == ReadLine(s.rxbuf)
        linea == Strip(Decode(linea_bytes))
        s1 == [s EXCEPT
                 !.reads = @ + 1,
                 !.rxbuf = AfterLine(s.rxbuf),
                 !.leido = linea_bytes]
    IN IF linea_bytes # <<>> /\ linea # <<>>
       THEN actualizar_historial_qr(Emit(s1, "toast"), linea, now)
       ELSE s1

\* the decoded line is used without .strip()
leer_datos_com_streamlit_sin_strip(s, io, now) ==
  IF ~IsOpen(s.serial_port) THEN s
  ELSE IF io = "SerialException"
  THEN [Emit(Close(s), "error") EXCEPT
          !.reads = @ + 1,
          !.fault = "SerialException",
          !.serial_port = None,
          !.closed_by = "SerialException"]
  ELSE IF io = "Exception"
  THEN [detener_lectura_com(
          [Emit(s, "error") EXCEPT !.reads = @ + 1, !.fault = "Exception"])
        EXCEPT !.closed_by = "Exception"]
  ELSE
    LET linea_bytes == ReadLine(s.rxbuf)
        linea == Decode(linea_bytes)
        s1 == [s EXCEPT
                 !.reads = @ + 1,
                 !.rxbuf = AfterLine(s.rxbuf),
                 !.leido = linea_bytes]
    IN IF linea_bytes # <<>> /\ linea # <<>>
       THEN actualizar_historial_qr(Emit(s1, "toast"), linea, now)
       ELSE s1

\* the `while True` loop the source's comment proposes: read until a read
\* returns nothing
RECURSIVE Drain(_, _)
Drain(s, now) ==
  LET linea_bytes == ReadLine(s.rxbuf)
      linea == Strip(Decode(linea_bytes))
      s1 == [s EXCEPT
               !.reads = @ + 1,
               !.rxbuf = AfterLine(s.rxbuf),
               !.leido = linea_bytes]
  IN IF linea_bytes = <<>> THEN s1
     ELSE IF linea # <<>>
     THEN Drain(actualizar_historial_qr(Emit(s1, "toast"), linea, now), now)
     ELSE Drain(s1, now)

leer_datos_com_streamlit_drain(s, io, now) ==
  IF ~IsOpen(s.serial_port) THEN s
  ELSE IF io = "SerialException"
  THEN [Emit(Close(s), "error") EXCEPT
          !.reads = @ + 1,
          !.fault = "SerialException",
          !.serial_port = None,
          !.closed_by = "SerialException"]
  ELSE IF io = "Exception"
  THEN [detener_lectura_com(
          [Emit(s, "error") EXCEPT !.reads = @ + 1, !.fault = "Exception"])
        EXCEPT !.closed_by = "Exception"]
  ELSE Drain(s, now)

leer_datos_com_streamlit(s, io, now) ==
  IF ~IsOpen(s.serial_port) THEN s
  ELSE IF io = "SerialException"
  THEN [Emit(Close(s), "error") EXCEPT
          !.reads = @ + 1,
          !.fault = "SerialException",
          !.serial_port = None,
          !.closed_by = "SerialException"]
  ELSE IF io = "Exception"
  THEN [detener_lectura_com(
          [Emit(s, "error") EXCEPT !.reads = @ + 1, !.fault = "Exception"])
        EXCEPT !.closed_by = "Exception"]
  ELSE
    LET linea_bytes == ReadLine(s.rxbuf)
        linea == Strip(Decode(linea_bytes))
        s1 == [s EXCEPT
                 !.reads = @ + 1,
                 !.rxbuf = AfterLine(s.rxbuf),
                 !.leido = linea_bytes]
    IN IF linea_bytes # <<>> /\ linea # <<>>
       THEN actualizar_historial_qr(Emit(s1, "toast"), linea, now)
       ELSE s1

\* the poll placed above the buttons
Script_poll_first(s0, button, port, baud, dev, io, now) ==
  LET s1 == IF IsOpen(s0.serial_port) THEN leer_datos_com_streamlit(s0, io, now) ELSE s0
      s2 == IF button = "Conectar Lector"
            THEN IF port # NoPorts
                 THEN iniciar_lectura_com([s1 EXCEPT !.port = port], port, baud, dev)
                 ELSE Emit([s1 EXCEPT !.port = port], "error")
            ELSE s1
      s3 == IF button = "Desconectar Lector" THEN detener_lectura_com(s2) ELSE s2
  IN IF button = "Limpiar Historial" THEN limpiar_historial(s3) ELSE s3

\* a pass that finds the session closed by a read error connects again
Script_reconecta(s0, button, port, baud, dev, io, now) ==
  LET s1 == IF button = "Conectar Lector"
            THEN IF port # NoPorts
                 THEN iniciar_lectura_com([s0 EXCEPT !.port = port], port, baud, dev)
                 ELSE Emit([s0 EXCEPT !.port = port], "error")
            ELSE s0
      s2 == IF button = "Desconectar Lector" THEN detener_lectura_com(s1) ELSE s1
      s3 == IF button = "Limpiar Historial" THEN limpiar_historial(s2) ELSE s2
      s4 == IF ~IsOpen(s3.serial_port) /\ s3.closed_by = "SerialException"
            THEN iniciar_lectura_com(s3, "COM3", baud, dev)
            ELSE s3
  IN IF IsOpen(s4.serial_port) THEN leer_datos_com_streamlit(s4, io, now) ELSE s4

\* the script of the reader tab, top to bottom: Connect, Disconnect, Clear, poll
Script(s0, button, port, baud, dev, io, now) ==
  LET s1 == IF button = "Conectar Lector"
            THEN IF port # NoPorts
                 THEN iniciar_lectura_com([s0 EXCEPT !.port = port], port, baud, dev)
                 ELSE Emit([s0 EXCEPT !.port = port], "error")
            ELSE s0
      s2 == IF button = "Desconectar Lector" THEN detener_lectura_com(s1) ELSE s1
      s3 == IF button = "Limpiar Historial" THEN limpiar_historial(s2) ELSE s2
  IN IF IsOpen(s3.serial_port) THEN leer_datos_com_streamlit(s3, io, now) ELSE s3

(* ------------------------------ actions ------------------------------- *)
\* the record of a pass before the script runs
NoPass(button) ==
  [button |-> button,
   port |-> "-",        \* port selected when Connect was clicked
   serial |-> "-",      \* what serial.Serial(...) did, when it was called
   connect |-> "-",     \* what iniciar_lectura_com returned, when it was called
   reads |-> 0,         \* calls of readline()
   leido |-> <<>>,      \* bytes readline() returned
   fault |-> "-",       \* exception the read raised
   appended |-> 0,      \* calls of actualizar_historial_qr
   truncated |-> FALSE, \* the history was cut back to the cap
   notices |-> {}]      \* messages shown

PassFields == DOMAIN NoPass("none")

Init ==
  /\ serial_port = None
  /\ reconnect_attempts = 0
  /\ historial_qr = <<>>
  /\ rxbuf = <<>>
  /\ handles = 0
  /\ closed_by = "-"
  /\ clock = 0
  /\ sent = 0
  /\ label = 0
  /\ ingested = <<>>
  /\ pass = NoPass("none")

\* session state, device and pass record as one value, threaded through the script
Enter(button) ==
  [f \in PassFields |-> NoPass(button)[f]] @@
  [serial_port |-> serial_port,
   reconnect_attempts |-> reconnect_attempts,
   historial_qr |-> historial_qr,
   rxbuf |-> rxbuf,
   handles |-> handles,
   closed_by |-> closed_by,
   ingested |-> ingested]

\* one execution of the script with `button` clicked; the widget values and
\* the device's answers are drawn from the given sets
RenderPass(button, ports, devs, ios) ==
  \E port \in ports, baud \in Bauds, dev \in devs, io \in ios :
    \E r \in {Script(Enter(button), button, port, baud, dev, io, clock)} :
       /\ serial_port' = r.serial_port
       /\ reconnect_attempts' = r.reconnect_attempts
       /\ historial_qr' = r.historial_qr
       /\ rxbuf' = r.rxbuf
       /\ handles' = r.handles
       /\ closed_by' = r.closed_by
       /\ ingested' = r.ingested
       /\ pass' = [f \in PassFields |-> r[f]]
       /\ UNCHANGED <<clock, sent, label>>

\* a pass no button started (another widget changed, the page was reloaded);
\* only the Connect pass consumes the selected port and the open's outcome
Rerun == RenderPass("none", {NoPorts}, {"ok"}, ReadOutcomes)

ClickGenerar == RenderPass("Generar QR", {NoPorts}, {"ok"}, ReadOutcomes)

ClickConectar == RenderPass("Conectar Lector", PortChoices, OpenOutcomes, ReadOutcomes)

\* the session is closed when this pass reaches the poll: no read is made
ClickDesconectar == RenderPass("Desconectar Lector", {NoPorts}, {"ok"}, {"ok"})

ClickExportar == RenderPass("Exportar Historial a CSV", {NoPorts}, {"ok"}, ReadOutcomes)

ClickLimpiar == RenderPass("Limpiar Historial", {NoPorts}, {"ok"}, ReadOutcomes)

\* the same passes over a link that never faults
RerunOk == RenderPass("none", {NoPorts}, {"ok"}, {"ok"})

ClickConectarOk == RenderPass("Conectar Lector", PortChoices, OpenOutcomes, {"ok"})

ClickLimpiarOk == RenderPass("Limpiar Historial", {NoPorts}, {"ok"}, {"ok"})

\* the scanner sends a frame while the port is open
Scan ==
  /\ IsOpen(serial_port)
  /\ sent < MaxFrames
  /\ \E f \in Frames :
       /\ Len(rxbuf) + Len(f) <= MaxBuf
       /\ rxbuf' = rxbuf \o f
  /\ sent' = sent + 1
  /\ UNCHANGED <<serial_port, reconnect_attempts, historial_qr, handles, closed_by, clock,
                 label, ingested, pass>>

\* the scanner sends the next label of its repeating run
ScanLabel ==
  /\ IsOpen(serial_port)
  /\ Len(ingested) + NumLines(rxbuf) < MaxIngest
  /\ Len(rxbuf) + 2 <= MaxBuf
  /\ rxbuf' = rxbuf \o CodeFrame(label)
  /\ label' = (label + 1) % NumCodes
  /\ UNCHANGED <<serial_port, reconnect_attempts, historial_qr, handles, closed_by, clock,
                 sent, ingested, pass>>

Tick ==
  /\ clock < MaxClock
  /\ clock' = clock + 1
  /\ UNCHANGED <<serial_port, reconnect_attempts, historial_qr, rxbuf, handles, closed_by,
                 sent, label, ingested, pass>>

Next ==
  \/ Scan
  \/ Tick
  \/ Rerun
  \/ ClickGenerar
  \/ ClickConectar
  \/ ClickDesconectar
  \/ ClickExportar
  \/ ClickLimpiar

Spec == Init /\ [][Next]_vars

NextHist ==
  \/ ScanLabel
  \/ RerunOk
  \/ ClickConectarOk
  \/ ClickLimpiarOk

SpecHist == Init /\ [][NextHist]_vars

(* ----------------------------- properties ----------------------------- *)
\* a step that is a render pass (every other step is the scanner's or the clock's)
IsPass == ~(Scan \/ ScanLabel \/ Tick)

\* the history as the pass's button leaves it, before the poll
Kept == IF pass'.button = "Limpiar Historial" THEN <<>> ELSE historial_qr

\* a read that returned: no exception came out of readline()
ReadReturned == pass.reads = 1 /\ pass.fault = "-"

\* a sequence back to front
Reverse(s) == [i \in 1..Len(s) |-> s[Len(s) + 1 - i]]

\* C1: after every operation of any run of appends, clears and polls the
\* history holds at most 100 records.
C1_HistoryAtMostCap == Len(historial_qr) <= HistoryCap

\* an append found 100 records and the history was cut back to 100
C1_Witness == pass.truncated /\ pass.appended = 1 /\ Len(historial_qr) = HistoryCap

\* C2: after n appends to an empty history the history is the min(n, 100) most
\* recently appended records, newest first: index 1 is the last one appended,
\* the others keep content and order, and the 101st append drops the oldest.
C2_NewestFirstMostRecent == historial_qr = Take(Reverse(ingested), HistoryCap)

\* the 101st append since the history was empty: the first record ingested is
\* gone, the second is now the oldest, and neighbours differ
C2_Witness ==
  /\ Len(ingested) = HistoryCap + 1
  /\ pass.truncated
  /\ historial_qr[HistoryCap] = ingested[2]
  /\ historial_qr[1] # historial_qr[2]

\* C3: a read that raises SerialException takes the session from Open to
\* Closed (handle closed and dropped) and leaves the history as it was; every
\* pass after it, until a connect succeeds, reads nothing, appends nothing and
\* raises nothing.
C3_ReadFaultClosesSession ==
  [][IsPass =>
       /\ pass'.fault = "SerialException" =>
            /\ IsOpen(serial_port) \/ pass'.connect = "True"
            /\ serial_port' = None
            /\ handles' = 0
            /\ pass'.appended = 0
            /\ historial_qr' = Kept
       /\ (closed_by = "SerialException" /\ pass'.connect # "True") =>
            /\ pass'.reads = 0
            /\ pass'.leido = <<>>
            /\ pass'.appended = 0
            /\ pass'.fault = "-"
            /\ historial_qr' = Kept
            /\ serial_port' = None]_vars

\* a pass made after the fault: the session is still closed, nothing was read
\* and the records ingested before the fault are still there
C3_Witness ==
  /\ closed_by = "SerialException"
  /\ pass.button = "none"
  /\ pass.fault = "-"
  /\ pass.reads = 0
  /\ serial_port = None
  /\ historial_qr # <<>>

\* C4: a connect on a closed session whose device cannot be opened leaves the
\* session closed with no handle stored and the history unchanged, and reports
\* the failure by the value False and an error message.
C4_ConnectFailureStaysClosed ==
  [][(IsPass /\ pass'.serial = "SerialException") =>
       /\ ~IsOpen(serial_port)
       /\ serial_port' = None
       /\ handles' = handles
       /\ historial_qr' = historial_qr
       /\ pass'.connect = "False"
       /\ "error" \in pass'.notices
       /\ pass'.reads = 0]_vars

\* a failed connect on a session that already holds records
C4_Witness ==
  /\ pass.serial = "SerialException"
  /\ pass.connect = "False"
  /\ serial_port = None
  /\ historial_qr # <<>>

\* C5: a connect while the session is open on the same port changes nothing and
\* reports no failure (an info message, not the value False); no second handle
\* is opened, and the process never holds more than one open handle.
C5_ConnectWhenOpenIsNoOp ==
  /\ [](handles <= 1 /\ (IsOpen(serial_port) <=> handles = 1))
  /\ [][(/\ IsPass
         /\ IsOpen(serial_port)
         /\ pass'.button = "Conectar Lector"
         /\ pass'.port = serial_port.port) =>
          /\ pass'.serial = "-"
          /\ pass'.connect = "None"
          /\ "info" \in pass'.notices
          /\ handles' <= handles
          /\ pass'.fault = "-" => (serial_port' = serial_port /\ handles' = handles)]_vars

\* Connect was clicked for the port the open session is on
C5_Witness ==
  /\ pass.button = "Conectar Lector"
  /\ pass.connect = "None"
  /\ IsOpen(serial_port)
  /\ pass.port = serial_port.port
  /\ handles = 1

\* bytes that are all ASCII whitespace (none at all included)
Blank(bs) == \A i \in 1..Len(bs) : bs[i] < 128 /\ IsSpace(bs[i])

\* C6: a poll on an open session whose read returns nothing (timeout) or only
\* whitespace appends nothing and leaves the session open.
C6_NoDataIsNoFault ==
  [][(IsPass /\ pass'.reads = 1 /\ pass'.fault = "-" /\ Blank(pass'.leido)) =>
       /\ pass'.appended = 0
       /\ historial_qr' = Kept
       /\ IsOpen(serial_port')
       /\ handles' = 1
       /\ closed_by' = "-"]_vars

\* a whitespace-only line was read on a session that already holds records
C6_Witness ==
  /\ ReadReturned
  /\ pass.leido = <<32, 13, 10>>
  /\ pass.appended = 0
  /\ IsOpen(serial_port)
  /\ historial_qr # <<>>

\* C7: once a read fault has closed the session it stays closed through every
\* pass that is not a successful connect; no step other than a Connect click
\* takes the session from Closed to Open.
C7_NoAutomaticReconnect ==
  [][/\ closed_by = "SerialException" => ~IsOpen(serial_port)
     /\ (~IsOpen(serial_port) /\ IsOpen(serial_port')) =>
          /\ IsPass
          /\ pass'.button = "Conectar Lector"
          /\ pass'.connect = "True"]_vars

\* a pass with another button after the fault, the session still closed
C7_Witness ==
  /\ closed_by = "SerialException"
  /\ pass.button = "Exportar Historial a CSV"
  /\ pass.fault = "-"
  /\ ~IsOpen(serial_port)

\* C8: a render pass calls readline() at most once (not at all when the
\* session is closed at the poll) and appends at most one record; the bytes it
\* takes are the oldest line of the buffer, so the lines waiting go down by at
\* most one per pass and are ingested in arrival order.
C8_OnePollPerPass ==
  [][IsPass =>
       /\ pass'.reads <= 1
       /\ pass'.appended <= pass'.reads
       /\ Len(historial_qr') <= Len(Kept) + 1
       /\ (~IsOpen(serial_port) /\ pass'.connect # "True") => pass'.reads = 0
       /\ (pass'.reads = 1 /\ pass'.fault = "-") =>
            LET before == IF pass'.connect = "True" THEN <<>> ELSE rxbuf
            IN /\ before = pass'.leido \o rxbuf'
               /\ NumLines(pass'.leido) <= 1
               /\ NumLines(rxbuf') >= NumLines(before) - 1
               /\ NumLines(before) > 0 => pass'.leido[Len(pass'.leido)] = 10]_vars

\* a pass ingested one line while another complete line stays queued
C8_Witness ==
  /\ ReadReturned
  /\ pass.appended = 1
  /\ NumLines(rxbuf) >= 1
  /\ IsOpen(serial_port)

\* a line decoded with every ill-formed byte sequence marked by -1
Marked(bs) == DecodeFrom(bs, 1, <<-1>>)

HasUndecodable(bs) == \E i \in 1..Len(Marked(bs)) : Marked(bs)[i] = -1

NotMark(c) == c # -1

\* C9 as claimed: a line with undecodable bytes does not fail the read or close
\* the session, its text has a substitute in place of each undecodable byte,
\* and so it is never empty and is appended.
C9_SubstituteKept ==
  (ReadReturned /\ HasUndecodable(pass.leido)) =>
    /\ IsOpen(serial_port)
    /\ pass.appended = 1
    /\ LET m == Strip(Marked(pass.leido))
           c == historial_qr[1].contenido
       IN /\ Len(c) = Len(m)
          /\ \A i \in 1..Len(m) : m[i] # -1 => c[i] = m[i]

\* C9 amended: a line with undecodable bytes does not fail the read or close
\* the session; its text is the line without the undecodable bytes, trimmed,
\* and it is appended exactly when that text is not empty (a line of nothing
\* but undecodable bytes is not appended).
C9_UndecodableDropped ==
  (ReadReturned /\ HasUndecodable(pass.leido)) =>
    /\ IsOpen(serial_port)
    /\ LET kept == Strip(SelectSeq(Marked(pass.leido), NotMark))
       IN /\ pass.appended = 1 <=> kept # <<>>
          /\ pass.appended = 1 => historial_qr[1].contenido = kept

\* the line "\xff\n" was read: nothing appended, the session still open
C9_Witness ==
  /\ ReadReturned
  /\ pass.leido = <<255, 10>>
  /\ pass.appended = 0
  /\ IsOpen(serial_port)

\* C10: the button acts before the poll of the same pass: a Disconnect pass
\* reads nothing and ends closed; a Clear pass ends with the history holding
\* just what its own poll ingested, at most one record.
C10_ButtonBeforePoll ==
  /\ pass.button = "Desconectar Lector" => (pass.reads = 0 /\ ~IsOpen(serial_port))
  /\ pass.button = "Limpiar Historial" =>
       /\ pass.appended <= 1
       /\ Len(historial_qr) = pass.appended
       /\ pass.appended = 1 =>
            historial_qr[1].contenido = Strip(Decode(pass.leido))

\* a Clear pass on an open session that ends with one record
C10_Witness ==
  /\ pass.button = "Limpiar Historial"
  /\ pass.appended = 1
  /\ Len(historial_qr) = 1
  /\ IsOpen(serial_port)

=============================================================================
